---- MODULE Spec2Model ----
(***************************************************************************)
(* Model of the Elide task driver (driver/driver.go, driver/handle.go,     *)
(* driver/state.go, driver/config.go): the task lifecycle entry points,    *)
(* the session bootstrap, the per-task completion watchers and the daemon  *)
(* they talk to.                                                           *)
(***************************************************************************)
EXTENDS Integers, Sequences, FiniteSets, TLC

\* ---------------------------------------------------------------- bounds
NProcs == 2
MaxWatchers == 2
MaxHandles == 2
MaxTime == 2
MaxRestarts == 1
MaxCalls == 4

\* ------------------------------------------------------ program constants
\* const attempts = 5 in ensureSession
attempts == 5
baseDelay == 200

\* const executeSnippetTimeout = 10 * time.Second
executeSnippetTimeout == 10

\* const statusRequestTimeout = 5 * time.Second
statusRequestTimeout == 5

\* the timeouts written out in ensureSession and Shutdown, in seconds
createSessionTimeout == 5
getSessionTimeout == 3
deleteSessionTimeout == 5

\* the timeouts StopTask is called with, in seconds
StopTimeouts == {0, 5}
\* exit code the stub daemon stores on cancellation
CancelledExitCode == 0 - 1

Procs == 1..NProcs
Watchers == 1..MaxWatchers
HandleIds == 1..MaxHandles
TaskIds == {"t1", "t2"}

\* default enabled languages of StartTask / buildSessionConfig
DefaultLanguages == {"python", "javascript", "typescript"}

\* d.config.SessionConfig.EnabledLanguages, empty meaning "use the defaults"
ConfiguredLanguages == {}

EnabledLanguages ==
    IF ConfiguredLanguages = {} THEN DefaultLanguages ELSE ConfiguredLanguages


\* ------------------------------------------------------------ task config
\* Script values: "" (absent), "main.py" (a file inside the task dir that
\* exists), "missing.py" (one that does not exist) and "../escape.py" (a path
\* that leaves the task dir).

\* A driver config blob that DecodeDriverConfig rejects
BadCfg == [decodable |-> FALSE, Script |-> "", Code |-> "", Language |-> ""]

Cfg(script, code, language) ==
    [decodable |-> TRUE, Script |-> script, Code |-> code, Language |-> language]

\* the task configs StartTask is called with: one of every kind the checks of
\* StartTask tell apart
Cfgs ==
    { BadCfg,
      Cfg("", "", "python"),
      Cfg("main.py", "print(1)", "python"),
      Cfg("", "print(1)", ""),
      Cfg("", "print(1)", "ruby"),
      Cfg("", "print(1)", "python"),
      Cfg("main.py", "", "python"),
      Cfg("missing.py", "", "python"),
      Cfg("../escape.py", "", "python") }

\* a Validate that also wants the language to be an enabled one
Validate_KnownLanguage(tc) ==
    IF tc.Script = "" /\ tc.Code = "" THEN "err_config"
    ELSE IF tc.Script # "" /\ tc.Code # "" THEN "err_config"
    ELSE IF tc.Language \notin {"python"} THEN "err_config"
    ELSE "ok"

\* TaskConfig.Validate
Validate(tc) ==
    IF tc.Script = "" /\ tc.Code = "" THEN "err_config"
    ELSE IF tc.Script # "" /\ tc.Code # "" THEN "err_config"
    ELSE IF tc.Language = "" THEN "err_config"
    ELSE "ok"

\* ValidateLanguage accepting every language
ValidateLanguage_Any(tc, enabled) == "ok"

\* TaskConfig.ValidateLanguage
ValidateLanguage(tc, enabled) ==
    IF tc.Language \in enabled THEN "ok" ELSE "err_language"

\* filepath.Clean(filepath.Join(baseDir, script)) stays under baseDir
EscapesTaskDir(script) == script = "../escape.py"

\* os.ReadFile(scriptPath) succeeds
ScriptReadable(script) == script = "main.py"

\* the clock after one more reading: time.Now() is monotonic, and readings
\* beyond MaxTime are no longer told apart
Tock(t) == IF t < MaxTime THEN t + 1 ELSE t

\* ------------------------------------------------------------ task handle
NoResult == [set |-> FALSE, ExitCode |-> 0, Err |-> ""]

NoHandle ==
    [executionId |-> "", sessionId |-> "", taskId |-> "", startedAt |-> 0,
     completedAt |-> 0 - 1, exitResult |-> NoResult, status |-> ""]

\* drivers.ExitResult built from a complete status response
ResultOf(resp) ==
    [set |-> TRUE, ExitCode |-> resp.exitCode, Err |-> resp.error]

\* taskHandle.IsRunning
IsRunning(h) == ~h.exitResult.set

\* taskHandle.SetCompleted
SetCompleted(h, result, t) ==
    [h EXCEPT !.exitResult = result, !.completedAt = t]

\* taskHandle.TaskStatus
TaskStatus(h) ==
    [ID |-> h.taskId,
     State |-> IF ~h.exitResult.set THEN "running" ELSE "exited",
     StartedAt |-> h.startedAt,
     CompletedAt |-> h.completedAt,
     ExitResult |-> h.exitResult,
     execution_id |-> h.executionId,
     session_id |-> h.sessionId,
     status |-> h.status]

NoStatus == TaskStatus(NoHandle)

\* TaskState, the snapshot StartTask stores in the handle returned to Nomad
NoTaskState ==
    [present |-> FALSE, ExecutionId |-> "", SessionId |-> "", TaskID |-> "",
     StartedAt |-> 0]

\* ----------------------------------------------------------------- daemon
NoExecution ==
    [exists |-> FALSE, sessionId |-> "", status |-> "", complete |-> FALSE,
     exitCode |-> 0, error |-> ""]

NoResp == [status |-> "", complete |-> FALSE, exitCode |-> 0, error |-> ""]

\* GetExecutionStatusResponse of the daemon for an execution it knows
StatusResp(e) ==
    [status |-> e.status, complete |-> e.complete, exitCode |-> e.exitCode,
     error |-> e.error]

\* ------------------------------------------------------------------ state
VARIABLES
    daemonClient,   \* d.daemonClient: "nil", "open" or "closed"
    sessionID,      \* d.sessionID
    sessionLock,    \* d.sessionLock: the caller holding it, 0 when free
    ctxDone,        \* d.ctx has been cancelled by signalShutdown
    tasks,          \* d.tasks: task id -> handle id, 0 when absent
    heap,           \* the taskHandle objects, by handle id
    nhandles,       \* number of taskHandle objects allocated
    proc,           \* the driver calls in progress, one per caller
    watcher,        \* the handleWait goroutines
    sessions,       \* sessions the daemon holds
    executions,     \* executions the daemon holds, by execution id
    persisted,      \* driver state held by Nomad, by task id
    now,            \* wall clock: the next reading of time.Now()
    restarts,       \* number of process restarts so far
    hostname,       \* what os.Hostname() returns in this process, "" on error
    noDeadline,     \* RPCs issued under a context with no deadline
    fingerprinter,  \* the handleFingerprint goroutine and its channel
    ncalls          \* driver calls made on this process so far

vars == <<daemonClient, sessionID, sessionLock, ctxDone, tasks, heap, nhandles,
          proc, watcher, sessions, executions, persisted, now, restarts,
          hostname, noDeadline, fingerprinter, ncalls>>

driverVars == <<daemonClient, sessionID, sessionLock, ctxDone>>
storeVars == <<tasks, heap, nhandles>>
daemonVars == <<sessions, executions>>
lifeVars == <<restarts, hostname, fingerprinter>>

\* ---------------------------------------------------------------- contexts
\* a context.Context, as far as its deadline goes
Background == [finite |-> FALSE, secs |-> 0]

\* context.WithTimeout: the earlier of the parent's deadline and the timeout
WithTimeout(parent, timeout) ==
    [finite |-> TRUE,
     secs |-> IF parent.finite /\ parent.secs < timeout THEN parent.secs
              ELSE timeout]

\* d.withTimeout: context.WithCancel(parent) for a timeout that is not
\* positive, context.WithTimeout otherwise
withTimeout(parent, timeout) ==
    IF timeout <= 0 THEN parent ELSE WithTimeout(parent, timeout)

\* an RPC under a deadline that has already passed fails at once
Expired(ctx) == ctx.finite /\ ctx.secs <= 0

\* the record of the RPCs issued without a deadline, after RPC rpc is issued
\* under ctx
Issued(rpc, ctx) ==
    IF ctx.finite THEN noDeadline ELSE noDeadline \cup {rpc}

\* the results of os.Hostname(): a name, or "" when the lookup fails
Hostnames == {"host", ""}

\* the id generateSessionID derives from the host name: "nomad-" + hostname,
\* with "unknown" for a failed or empty lookup
HostSessionID == IF hostname = "" THEN "nomad-unknown" ELSE "nomad-host"

\* generateSessionID: the cached id when there is one
generateSessionID(cached) == IF cached # "" THEN cached ELSE HostSessionID

\* the ids a CancelExecution request carries
NoRequest == [sessionId |-> "", executionId |-> ""]

IdleProc ==
    [pc |-> "idle", op |-> "", task |-> "", cfg |-> BadCfg, rpcs |-> {},
     i |-> 0, lastErr |-> FALSE, result |-> "", resp |-> NoResp,
     status |-> NoStatus, force |-> FALSE, ts |-> NoTaskState,
     created |-> FALSE, read |-> FALSE, req |-> NoRequest, h |-> NoHandle,
     waited |-> 0]

\* drivers.Fingerprint, as far as its health goes; called tells whether
\* buildFingerprint made the Health RPC for it
NoFingerprint == [Health |-> "", socket |-> FALSE, called |-> FALSE, ok |-> FALSE]

IdleFingerprinter ==
    [state |-> "unused", ctxDone |-> FALSE, fp |-> NoFingerprint, received |-> 0]

\* (stored is the exit result the handle had when WaitTask was called, kept
\* while the goroutine runs)
IdleWatcher ==
    [state |-> "unused", h |-> 0, task |-> "", ctxDone |-> FALSE,
     resp |-> NoResp, result |-> NoResult, delivered |-> <<>>,
     pollFailed |-> FALSE, stored |-> NoResult]

\* NewPlugin, with a daemon and a Nomad state store that hold nothing yet
Init ==
    /\ daemonClient = "nil"
    /\ sessionID = ""
    /\ sessionLock = 0
    /\ ctxDone = FALSE
    /\ tasks = [t \in TaskIds |-> 0]
    /\ heap = [h \in HandleIds |-> NoHandle]
    /\ nhandles = 0
    /\ proc = [p \in Procs |-> IdleProc]
    /\ watcher = [w \in Watchers |-> IdleWatcher]
    /\ sessions = {}
    /\ executions = [e \in TaskIds |-> NoExecution]
    /\ persisted = [t \in TaskIds |-> NoTaskState]
    /\ now = 0
    /\ restarts = 0
    /\ hostname = "host"
    /\ noDeadline = {}
    /\ fingerprinter = IdleFingerprinter
    /\ ncalls = 0

\* The record of a call that returned is kept, with pc "done", in the state
\* the return leads to and dropped by the step after it.
Settled == [p \in Procs |-> IF proc[p].pc = "done" THEN IdleProc ELSE proc[p]]

Free(p) == proc[p].pc \in {"idle", "done"}

\* A caller can begin a new driver call; callers are interchangeable, so the
\* free caller with the smallest number takes it
CanCall(p) == Free(p) /\ \A q \in Procs : q < p => ~Free(q)

\* Task ids are interchangeable: "t2" is referred to only once "t1" is in use
\* (started, or being started)
InUse(t) ==
    \/ persisted[t].present
    \/ executions[t].exists
    \/ \E q \in Procs : proc[q].pc \notin {"idle", "done"} /\ proc[q].task = t

CallableTasks == IF InUse("t1") THEN TaskIds ELSE {"t1"}

\* every call made on the driver is counted
Budget == ncalls < MaxCalls /\ ncalls' = ncalls + 1

\* the call of p returns
Return(p, result) ==
    [proc[p] EXCEPT !.pc = "done", !.result = result, !.i = 0,
                    !.lastErr = FALSE, !.resp = NoResp, !.waited = 0]

\* an RPC on the daemon client can only succeed on an open connection
ClientUsable == daemonClient = "open"


\* ---------------------------------------------------------- ensureSession
\* a Lock() that does not exclude
CanLock_NoMutex(p) == TRUE

\* d.sessionLock.Lock() succeeds for p
CanLock(p) == sessionLock = 0

\* the "if d.sessionID != """ test made under the lock
SessionCached(sid) == sid # ""

\* where a caller goes when its ensureSession returns
EnsureReturn(p, ok) ==
    IF proc[p].op = "SetConfig" THEN Return(p, "ok")
    ELSE IF ok THEN [proc[p] EXCEPT !.pc = "resolve", !.i = 0, !.lastErr = FALSE,
                                    !.waited = 0]
    ELSE Return(p, "err_session")

\* a retry loop that never gives up
MoreAttempts_Unbounded(i) == TRUE

\* the loop condition of ensureSession, for the attempt after attempt i
MoreAttempts(i) == i + 1 < attempts

\* the time.After of the select that ends failed attempt i, in milliseconds
Backoff(i) == (i + 1) * baseDelay

\* ensureSession, entry: the nil test on the daemon client
EnsureEnter(p) ==
    /\ proc[p].pc = "ensure"
    /\ proc' = [Settled EXCEPT ![p] =
            IF daemonClient = "nil" THEN EnsureReturn(p, FALSE)
            ELSE [proc[p] EXCEPT !.pc = "lock"]]
    /\ UNCHANGED <<driverVars, storeVars, watcher, daemonVars, persisted, now,
                   lifeVars, noDeadline, ncalls>>

\* ensureSession: take sessionLock, return at once when an id is cached
EnsureLock(p) ==
    /\ proc[p].pc = "lock"
    /\ CanLock(p)
    /\ IF SessionCached(sessionID)
       THEN /\ proc' = [Settled EXCEPT ![p] = EnsureReturn(p, TRUE)]
            /\ UNCHANGED sessionLock
       ELSE /\ proc' = [Settled EXCEPT ![p] =
                    [proc[p] EXCEPT !.pc = "create", !.i = 0, !.lastErr = FALSE]]
            /\ sessionLock' = p
    /\ UNCHANGED <<daemonClient, sessionID, ctxDone, storeVars, watcher,
                   daemonVars, persisted, now, lifeVars, noDeadline, ncalls>>

\* ensureSession: one CreateSession attempt, for the id line 610 generated
\* under the lock when d.sessionID was found empty
EnsureCreate(p) ==
    /\ proc[p].pc = "create"
    /\ \E ok \in BOOLEAN :
        /\ ok => ClientUsable
        /\ LET sid == generateSessionID("")
               called == [proc[p] EXCEPT !.rpcs = @ \cup {"CreateSession"}]
           IN IF ok
              THEN /\ sessions' = sessions \cup {sid}
                   /\ sessionID' = sid
                   /\ sessionLock' = 0
                   /\ proc' = [Settled EXCEPT ![p] =
                        [EnsureReturn(p, TRUE) EXCEPT !.rpcs = called.rpcs]]
              ELSE /\ proc' = [Settled EXCEPT ![p] =
                        [called EXCEPT !.pc = "get", !.lastErr = TRUE]]
                   /\ UNCHANGED <<sessions, sessionID, sessionLock>>
    /\ noDeadline' = Issued("CreateSession",
                            WithTimeout(Background, createSessionTimeout))
    /\ UNCHANGED <<daemonClient, ctxDone, storeVars, watcher, executions,
                   persisted, now, lifeVars, ncalls>>

\* ensureSession: the GetSession that follows a failed CreateSession, and the
\* backoff before the next attempt
EnsureGet(p) ==
    /\ proc[p].pc = "get"
    /\ \E ok \in BOOLEAN :
        /\ ok => (ClientUsable /\ generateSessionID("") \in sessions)
        /\ LET sid == generateSessionID("")
               called == [proc[p] EXCEPT !.rpcs = @ \cup {"GetSession"}]
           IN IF ok
              THEN /\ sessionID' = sid
                   /\ sessionLock' = 0
                   /\ proc' = [Settled EXCEPT ![p] =
                        [EnsureReturn(p, TRUE) EXCEPT !.rpcs = called.rpcs]]
              ELSE IF MoreAttempts(proc[p].i)
              THEN /\ proc' = [Settled EXCEPT ![p] =
                        [called EXCEPT !.pc = "create", !.i = @ + 1,
                                       !.waited = @ + Backoff(proc[p].i)]]
                   /\ UNCHANGED <<sessionID, sessionLock>>
              ELSE /\ sessionLock' = 0
                   /\ proc' = [Settled EXCEPT ![p] =
                        [EnsureReturn(p, FALSE) EXCEPT !.rpcs = called.rpcs]]
                   /\ UNCHANGED sessionID
    /\ noDeadline' = Issued("GetSession",
                            WithTimeout(Background, getSessionTimeout))
    /\ UNCHANGED <<daemonClient, ctxDone, storeVars, watcher, daemonVars,
                   persisted, now, lifeVars, ncalls>>

\* -------------------------------------------------------------- SetConfig
\* SetConfig: store the config, connect the daemon client, call Health, then
\* go on to ensureSession (whose error is only logged)
SetConfig(p) ==
    /\ CanCall(p)
    /\ Budget
    /\ \E connected \in BOOLEAN :
        IF connected
        THEN /\ daemonClient' = "open"
             /\ proc' = [Settled EXCEPT ![p] =
                    [IdleProc EXCEPT !.pc = "ensure", !.op = "SetConfig",
                                     !.rpcs = {"Health"}]]
             /\ noDeadline' = Issued("Health", Background)
        ELSE /\ proc' = [Settled EXCEPT ![p] =
                    [IdleProc EXCEPT !.pc = "done", !.op = "SetConfig",
                                     !.result = "err_connect"]]
             /\ UNCHANGED <<daemonClient, noDeadline>>
    /\ UNCHANGED <<sessionID, sessionLock, ctxDone, storeVars, watcher,
                   daemonVars, persisted, now, lifeVars>>


\* -------------------------------------------------------------- StartTask
\* calls that will allocate a taskHandle and have not done so yet
InFlightAllocs ==
    Cardinality({p \in Procs : /\ proc[p].op \in {"StartTask", "RecoverTask"}
                               /\ proc[p].pc \notin {"idle", "done"}})

\* StartTask without the double-start guard
StartPrecheck_NoGuard(registered, cfg) ==
    IF ~cfg.decodable THEN "err_decode"
    ELSE IF Validate(cfg) # "ok" THEN Validate(cfg)
    ELSE ValidateLanguage(cfg, EnabledLanguages)

\* the checks StartTask makes before it calls ensureSession: the double-start
\* guard, DecodeDriverConfig, Validate and ValidateLanguage
StartPrecheck(registered, cfg) ==
    IF registered THEN "err_exists"
    ELSE IF ~cfg.decodable THEN "err_decode"
    ELSE IF Validate(cfg) # "ok" THEN Validate(cfg)
    ELSE ValidateLanguage(cfg, EnabledLanguages)

\* StartTask up to the call of ensureSession
StartTask(p) ==
    /\ CanCall(p)
    /\ Budget
    /\ nhandles + InFlightAllocs < MaxHandles
    /\ \E t \in CallableTasks, cfg \in Cfgs :
        LET pre == StartPrecheck(tasks[t] # 0, cfg)
            call == [IdleProc EXCEPT !.op = "StartTask", !.task = t, !.cfg = cfg]
        IN proc' = [Settled EXCEPT ![p] =
                IF pre # "ok"
                THEN [call EXCEPT !.pc = "done", !.result = pre]
                ELSE [call EXCEPT !.pc = "ensure"]]
    /\ UNCHANGED <<driverVars, storeVars, watcher, daemonVars, persisted, now,
                   lifeVars, noDeadline>>

\* the outcome of reading the task's code: inline code, or the script file
ResolveCode(cfg) ==
    IF cfg.Code # "" THEN "ok"
    ELSE IF cfg.Script # ""
    THEN IF EscapesTaskDir(cfg.Script) THEN "err_escape"
         ELSE IF ~ScriptReadable(cfg.Script) THEN "err_read"
         ELSE "ok"
    ELSE "err_config"

\* os.ReadFile called on the script path before the path is checked
ReadsScript_Unchecked(cfg) == cfg.Code = "" /\ cfg.Script # ""

\* StartTask reaches os.ReadFile: no inline code, and a script path that
\* passed the task-directory check
ReadsScript(cfg) ==
    cfg.Code = "" /\ cfg.Script # "" /\ ~EscapesTaskDir(cfg.Script)

\* StartTask after ensureSession: read the code
StartResolve(p) ==
    /\ proc[p].pc = "resolve"
    /\ proc[p].op = "StartTask"
    /\ LET r == ResolveCode(proc[p].cfg)
           rd == ReadsScript(proc[p].cfg)
       IN proc' = [Settled EXCEPT ![p] =
            IF r = "ok" THEN [proc[p] EXCEPT !.pc = "exec", !.read = rd]
            ELSE [Return(p, r) EXCEPT !.read = rd]]
    /\ UNCHANGED <<driverVars, storeVars, watcher, daemonVars, persisted, now,
                   lifeVars, noDeadline, ncalls>>

\* the daemon's ExecuteSnippet: a running execution under the requested id
NewExecution(sid) ==
    [exists |-> TRUE, sessionId |-> sid, status |-> "running",
     complete |-> FALSE, exitCode |-> 0, error |-> ""]

\* StartTask: the ExecuteSnippet RPC, with d.sessionID and cfg.ID
StartExecute(p) ==
    /\ proc[p].pc = "exec"
    /\ \E ok \in BOOLEAN :
        /\ ok => (ClientUsable /\ sessionID \in sessions)
        /\ LET called == [proc[p] EXCEPT !.rpcs = @ \cup {"ExecuteSnippet"}]
           IN IF ok
              THEN /\ executions' = [executions EXCEPT
                        ![proc[p].task] = NewExecution(sessionID)]
                   /\ proc' = [Settled EXCEPT ![p] =
                        [called EXCEPT !.pc = "build", !.created = TRUE,
                                       !.resp = [NoResp EXCEPT !.status = "running"]]]
              ELSE /\ proc' = [Settled EXCEPT ![p] =
                        [Return(p, "err_execute") EXCEPT !.rpcs = called.rpcs]]
                   /\ UNCHANGED executions
    /\ noDeadline' = Issued("ExecuteSnippet",
                            withTimeout(Background, executeSnippetTimeout))
    /\ UNCHANGED <<driverVars, storeVars, watcher, sessions, persisted, now,
                   lifeVars, ncalls>>

\* the taskHandle StartTask builds from the ExecuteSnippet response
StartedHandle(t, execId, sid, status, at) ==
    [executionId |-> execId, sessionId |-> sid, taskId |-> t, startedAt |-> at,
     completedAt |-> 0 - 1, exitResult |-> NoResult, status |-> status]

\* the TaskState StartTask hands to SetDriverState
StartedState(t, execId, sid, at) ==
    [present |-> TRUE, ExecutionId |-> execId, SessionId |-> sid, TaskID |-> t,
     StartedAt |-> at]

\* a call is about to assign d.sessionID: RecoverTask after its reconnect, or
\* an ensureSession inside its attempt loop
WritePending ==
    \E q \in Procs : proc[q].pc \in {"recSession", "create", "get"}

\* StartTask: the taskHandle literal, with d.sessionID and time.Now() as they
\* are read for it. It is a step of its own where an assignment of
\* d.sessionID can come between it and the TaskState literal; where none is
\* pending the two literals read the same id and StartRegister takes both.
StartBuild(p) ==
    /\ proc[p].pc = "build"
    /\ WritePending
    /\ proc' = [Settled EXCEPT ![p] =
            [proc[p] EXCEPT !.pc = "register",
                            !.h = StartedHandle(proc[p].task, proc[p].task,
                                        sessionID, proc[p].resp.status, now)]]
    /\ now' = Tock(now)
    /\ UNCHANGED <<driverVars, storeVars, watcher, daemonVars, persisted,
                   lifeVars, noDeadline, ncalls>>

\* StartTask: the TaskState literal, with d.sessionID as it is read for it,
\* SetDriverState and d.tasks.Set
StartRegister(p) ==
    /\ proc[p].pc \in {"build", "register"}
    /\ proc[p].op = "StartTask"
    /\ nhandles < MaxHandles
    /\ \E encoded \in BOOLEAN :
        LET t == proc[p].task
            hid == nhandles + 1
            h == IF proc[p].pc = "register" THEN proc[p].h
                 ELSE StartedHandle(t, t, sessionID, proc[p].resp.status, now)
        IN IF encoded
           THEN /\ heap' = [heap EXCEPT ![hid] = h]
                /\ tasks' = [tasks EXCEPT ![t] = hid]
                /\ nhandles' = hid
                /\ persisted' = [persisted EXCEPT ![t] =
                        StartedState(t, t, sessionID, h.startedAt)]
                /\ proc' = [Settled EXCEPT ![p] =
                        [Return(p, "ok") EXCEPT !.h = NoHandle]]
           ELSE /\ proc' = [Settled EXCEPT ![p] =
                        [Return(p, "err_persist") EXCEPT !.h = NoHandle]]
                /\ UNCHANGED <<storeVars, persisted>>
    /\ now' = IF proc[p].pc = "build" THEN Tock(now) ELSE now
    /\ UNCHANGED <<driverVars, watcher, daemonVars, lifeVars, noDeadline,
                   ncalls>>

\* ------------------------------------------------------------ RecoverTask
\* a RecoverTask that does not look at the registry
RecoverPrecheck_NoGuard(registered, decoded) ==
    IF ~decoded THEN "err_decode" ELSE "recover"

\* RecoverTask before the reconnect: nil for a task id that is registered,
\* then GetDriverState
RecoverPrecheck(registered, decoded) ==
    IF registered THEN "ok"
    ELSE IF ~decoded THEN "err_decode"
    ELSE "recover"

\* RecoverTask up to the reconnect: the registry test and GetDriverState
RecoverTask(p) ==
    /\ CanCall(p)
    /\ Budget
    /\ nhandles + InFlightAllocs < MaxHandles
    /\ \E t \in CallableTasks, decoded \in BOOLEAN :
        /\ persisted[t].present
        /\ LET call == [IdleProc EXCEPT !.op = "RecoverTask", !.task = t,
                                         !.ts = persisted[t]]
               pre == RecoverPrecheck(tasks[t] # 0, decoded)
           IN proc' = [Settled EXCEPT ![p] =
                IF pre = "recover" THEN [call EXCEPT !.pc = "recConnect"]
                ELSE [call EXCEPT !.pc = "done", !.result = pre]]
    /\ UNCHANGED <<driverVars, storeVars, watcher, daemonVars, persisted, now,
                   lifeVars, noDeadline>>

\* RecoverTask: "if d.daemonClient == nil", NewDaemonClient and the store of
\* the client
RecoverConnect(p) ==
    /\ proc[p].pc = "recConnect"
    /\ IF daemonClient = "nil"
       THEN \E connected \in BOOLEAN :
            IF connected
            THEN /\ daemonClient' = "open"
                 /\ proc' = [Settled EXCEPT ![p] = [proc[p] EXCEPT !.pc = "recSession"]]
            ELSE /\ proc' = [Settled EXCEPT ![p] = Return(p, "err_connect")]
                 /\ UNCHANGED daemonClient
       ELSE /\ proc' = [Settled EXCEPT ![p] = [proc[p] EXCEPT !.pc = "recStatus"]]
            /\ UNCHANGED daemonClient
    /\ UNCHANGED <<sessionID, sessionLock, ctxDone, storeVars, watcher,
                   daemonVars, persisted, now, lifeVars, noDeadline, ncalls>>

\* a RecoverTask that bootstraps a session after the reconnect instead of
\* restoring the persisted one
RecoverSession_Bootstrap(p) ==
    /\ proc[p].pc = "recSession"
    /\ proc' = [Settled EXCEPT ![p] = [proc[p] EXCEPT !.pc = "lock"]]
    /\ UNCHANGED <<driverVars, storeVars, watcher, daemonVars, persisted, now,
                   lifeVars, noDeadline, ncalls>>

\* RecoverTask: d.sessionID = taskState.SessionId, after a reconnect
RecoverSession(p) ==
    /\ proc[p].pc = "recSession"
    /\ sessionID' = proc[p].ts.SessionId
    /\ proc' = [Settled EXCEPT ![p] = [proc[p] EXCEPT !.pc = "recStatus"]]
    /\ UNCHANGED <<daemonClient, sessionLock, ctxDone, storeVars, watcher,
                   daemonVars, persisted, now, lifeVars, noDeadline, ncalls>>

\* RecoverTask: the GetExecutionStatus RPC for the persisted ids
RecoverStatus(p) ==
    /\ proc[p].pc = "recStatus"
    /\ \E ok \in BOOLEAN :
        LET ts == proc[p].ts
            called == [proc[p] EXCEPT !.rpcs = @ \cup {"GetExecutionStatus"}]
        IN /\ ok => (ClientUsable /\ executions[ts.ExecutionId].exists)
           /\ proc' = [Settled EXCEPT ![p] =
                IF ok
                THEN [called EXCEPT !.pc = "register",
                                    !.resp = StatusResp(executions[ts.ExecutionId])]
                ELSE [Return(p, "err_status") EXCEPT !.rpcs = called.rpcs]]
    /\ noDeadline' = Issued("GetExecutionStatus",
                            withTimeout(Background, statusRequestTimeout))
    /\ UNCHANGED <<driverVars, storeVars, watcher, daemonVars, persisted, now,
                   lifeVars, ncalls>>

\* a rebuilt handle that takes its session id from nowhere
RecoveredHandle_NoSession(ts, resp, at) ==
    LET h == [executionId |-> ts.ExecutionId, sessionId |-> "",
              taskId |-> ts.TaskID, startedAt |-> ts.StartedAt,
              completedAt |-> 0 - 1, exitResult |-> NoResult,
              status |-> resp.status]
    IN IF resp.complete THEN SetCompleted(h, ResultOf(resp), at) ELSE h

\* a rebuilt handle that is left running whatever the status says
RecoveredHandle_Running(ts, resp, at) ==
    [executionId |-> ts.ExecutionId, sessionId |-> ts.SessionId,
     taskId |-> ts.TaskID, startedAt |-> ts.StartedAt,
     completedAt |-> 0 - 1, exitResult |-> NoResult, status |-> resp.status]

\* the taskHandle RecoverTask rebuilds from the snapshot and the status
RecoveredHandle(ts, resp, at) ==
    LET h == [executionId |-> ts.ExecutionId, sessionId |-> ts.SessionId,
              taskId |-> ts.TaskID, startedAt |-> ts.StartedAt,
              completedAt |-> 0 - 1, exitResult |-> NoResult,
              status |-> resp.status]
    IN IF resp.complete THEN SetCompleted(h, ResultOf(resp), at) ELSE h

\* RecoverTask: rebuild the handle and d.tasks.Set
RecoverRegister(p) ==
    /\ proc[p].pc = "register"
    /\ proc[p].op = "RecoverTask"
    /\ nhandles < MaxHandles
    /\ LET t == proc[p].task
           hid == nhandles + 1
       IN /\ heap' = [heap EXCEPT ![hid] =
                RecoveredHandle(proc[p].ts, proc[p].resp, now)]
          /\ tasks' = [tasks EXCEPT ![t] = hid]
          /\ nhandles' = hid
    /\ proc' = [Settled EXCEPT ![p] = Return(p, "ok")]
    /\ now' = IF proc[p].resp.complete THEN Tock(now) ELSE now
    /\ UNCHANGED <<driverVars, watcher, daemonVars, persisted, lifeVars, noDeadline, ncalls>>


\* ------------------------------------------------- WaitTask and handleWait
\* WaitTask: look the handle up and start a handleWait goroutine on it
WaitTask(p) ==
    /\ CanCall(p)
    /\ Budget
    /\ \E t \in CallableTasks :
        LET call == [IdleProc EXCEPT !.op = "WaitTask", !.task = t, !.pc = "done"]
        IN IF tasks[t] = 0
           THEN /\ proc' = [Settled EXCEPT ![p] = [call EXCEPT !.result = "err_notfound"]]
                /\ UNCHANGED watcher
           ELSE \E w \in Watchers :
                /\ watcher[w].state = "unused"
                /\ \A v \in Watchers : v < w => watcher[v].state # "unused"
                /\ watcher' = [watcher EXCEPT ![w] =
                        [IdleWatcher EXCEPT !.state = "select", !.h = tasks[t],
                                            !.task = t,
                                            !.stored = heap[tasks[t]].exitResult]]
                /\ proc' = [Settled EXCEPT ![p] = [call EXCEPT !.result = "ok"]]
    /\ UNCHANGED <<driverVars, storeVars, daemonVars, persisted, now, lifeVars, noDeadline>>

\* a handleWait goroutine that has returned: what is left of it is its
\* channel, closed, and what the channel delivered
Closed(wr, delivered) ==
    [IdleWatcher EXCEPT !.state = "closed", !.task = wr.task, !.h = wr.h,
                        !.pollFailed = wr.pollFailed, !.delivered = delivered]

\* the caller of WaitTask cancels the context it passed (once handleWait is
\* blocked in "ch <-" the contexts are no longer looked at)
CancelWait(w) ==
    /\ watcher[w].state \in {"select", "polling"}
    /\ ~watcher[w].ctxDone
    /\ watcher' = [watcher EXCEPT ![w].ctxDone = TRUE]
    /\ proc' = Settled
    /\ UNCHANGED <<driverVars, storeVars, daemonVars, persisted, now,
                   lifeVars, noDeadline, ncalls>>

\* handleWait: the select takes ctx.Done() or d.ctx.Done(); the deferred
\* close(ch) runs
WatcherStop(w) ==
    /\ watcher[w].state = "select"
    /\ watcher[w].ctxDone \/ ctxDone
    /\ watcher' = [watcher EXCEPT ![w] = Closed(watcher[w], <<>>)]
    /\ proc' = Settled
    /\ UNCHANGED <<driverVars, storeVars, daemonVars, persisted, now,
                   lifeVars, noDeadline, ncalls>>

\* handleWait: the select takes ticker.C and the GetExecutionStatus RPC is
\* sent, under the WaitTask caller's context cut to statusRequestTimeout (the
\* caller's context taken without a deadline of its own)
WatcherTick(w) ==
    /\ watcher[w].state = "select"
    /\ watcher' = [watcher EXCEPT ![w].state = "polling"]
    /\ proc' = Settled
    /\ noDeadline' = Issued("GetExecutionStatus",
                            withTimeout(Background, statusRequestTimeout))
    /\ UNCHANGED <<driverVars, storeVars, daemonVars, persisted, now,
                   lifeVars, ncalls>>

\* a watcher that polls again after a failed poll
OnPollError_Retry(wr) == [wr EXCEPT !.state = "select", !.pollFailed = TRUE]

\* handleWait, "if err != nil": the result it goes on to send
OnPollError(wr) ==
    [wr EXCEPT !.state = "sending", !.pollFailed = TRUE, !.resp = NoResp,
               !.result = [set |-> TRUE, ExitCode |-> 0, Err |-> "poll"]]

\* a watcher that goes back to its select whatever the status says
OnPollStatus_KeepsPolling(wr, resp) ==
    [wr EXCEPT !.state = "select", !.resp = NoResp]

\* handleWait, after a status response: the watcher's next position
OnPollStatus(wr, resp) ==
    IF resp.complete
    THEN [wr EXCEPT !.state = "sending", !.resp = NoResp, !.result = ResultOf(resp)]
    ELSE [wr EXCEPT !.state = "select", !.resp = NoResp]

\* handleWait, after a status response: the writes to the handle
PollUpdate(h, resp, at) ==
    LET h1 == [h EXCEPT !.status = resp.status]
    IN IF resp.complete THEN SetCompleted(h1, ResultOf(resp), at) ELSE h1

\* handleWait: the GetExecutionStatus RPC returns
WatcherPollReturn(w) ==
    /\ watcher[w].state = "polling"
    /\ \E ok \in BOOLEAN :
        LET hid == watcher[w].h
            e == executions[heap[hid].executionId]
        IN /\ ok => (ClientUsable /\ ~watcher[w].ctxDone /\ e.exists)
           /\ IF ok
              THEN /\ watcher' = [watcher EXCEPT ![w] =
                        OnPollStatus(watcher[w], StatusResp(e))]
                   /\ now' = IF e.complete THEN Tock(now) ELSE now
                   /\ heap' = [heap EXCEPT ![hid] =
                        PollUpdate(heap[hid], StatusResp(e), now)]
              ELSE /\ watcher' = [watcher EXCEPT ![w] = OnPollError(watcher[w])]
                   /\ UNCHANGED <<heap, now>>
    /\ proc' = Settled
    /\ UNCHANGED <<driverVars, tasks, nhandles, daemonVars, persisted,
                   lifeVars, noDeadline, ncalls>>

\* handleWait: the consumer receives from ch, then the deferred close(ch)
WatcherDeliver(w) ==
    /\ watcher[w].state = "sending"
    /\ watcher' = [watcher EXCEPT ![w] =
            Closed(watcher[w], <<watcher[w].result>>)]
    /\ proc' = Settled
    /\ UNCHANGED <<driverVars, storeVars, daemonVars, persisted, now,
                   lifeVars, noDeadline, ncalls>>


\* ------------------------------------------- StopTask, DestroyTask, Inspect
\* the daemon's CancelExecution on one execution
Cancelled(e) ==
    IF e.complete THEN e
    ELSE [e EXCEPT !.status = "cancelled", !.complete = TRUE,
                   !.exitCode = CancelledExitCode]

\* a CancelExecution that names the first execution, whatever the handle
CancelRequest_First(h) == [sessionId |-> h.sessionId, executionId |-> "t1"]

\* StopTask: the ids passed to CancelExecution, those of the handle looked up
CancelRequest(h) == [sessionId |-> h.sessionId, executionId |-> h.executionId]

\* StopTask: look the handle up, one CancelExecution RPC with the handle's ids
StopTask(p) ==
    /\ CanCall(p)
    /\ Budget
    /\ \E t \in CallableTasks, timeout \in StopTimeouts, ok \in BOOLEAN :
        LET call == [IdleProc EXCEPT !.op = "StopTask", !.task = t, !.pc = "done"]
            h == heap[tasks[t]]
            req == CancelRequest(h)
            ctx == WithTimeout(Background, timeout)
        IN IF tasks[t] = 0
           THEN /\ ok
                /\ proc' = [Settled EXCEPT ![p] = [call EXCEPT !.result = "err_notfound"]]
                /\ UNCHANGED <<executions, noDeadline>>
           ELSE /\ ok => /\ ClientUsable
                         /\ executions[req.executionId].exists
                         /\ ~Expired(ctx)
                /\ noDeadline' = Issued("CancelExecution", ctx)
                /\ proc' = [Settled EXCEPT ![p] =
                        [call EXCEPT !.rpcs = {"CancelExecution"}, !.req = req,
                                     !.result = IF ok THEN "ok" ELSE "err_cancel"]]
                /\ executions' = IF ok
                        THEN [executions EXCEPT ![req.executionId] = Cancelled(@)]
                        ELSE executions
    /\ UNCHANGED <<driverVars, storeVars, watcher, sessions, persisted, now,
                   lifeVars>>

\* the running test made without looking at force
DestroyRefused_IgnoresForce(h, force) == IsRunning(h)

\* DestroyTask: "if handle.IsRunning() && !force"
DestroyRefused(h, force) == IsRunning(h) /\ ~force

\* a DestroyTask that cancels the execution of the handle it removes
DestroyRpcs_Cancel(h) == {"CancelExecution"}

\* DestroyTask: the RPCs made for the handle it removes: none, the handle is
\* only deleted from the registry
DestroyRpcs(h) == {}

\* DestroyTask
DestroyTask(p) ==
    /\ CanCall(p)
    /\ Budget
    /\ \E t \in CallableTasks, force \in BOOLEAN :
        LET call == [IdleProc EXCEPT !.op = "DestroyTask", !.task = t,
                                     !.force = force, !.pc = "done"]
        IN IF tasks[t] = 0
           THEN /\ proc' = [Settled EXCEPT ![p] = [call EXCEPT !.result = "ok"]]
                /\ UNCHANGED tasks
           ELSE IF DestroyRefused(heap[tasks[t]], force)
           THEN /\ proc' = [Settled EXCEPT ![p] = [call EXCEPT !.result = "err_running"]]
                /\ UNCHANGED tasks
           ELSE /\ proc' = [Settled EXCEPT ![p] =
                        [call EXCEPT !.result = "ok",
                                     !.rpcs = DestroyRpcs(heap[tasks[t]])]]
                /\ tasks' = [tasks EXCEPT ![t] = 0]
    /\ UNCHANGED <<driverVars, heap, nhandles, watcher, daemonVars, persisted,
                   now, lifeVars, noDeadline>>

\* InspectTask
InspectTask(p) ==
    /\ CanCall(p)
    /\ Budget
    /\ \E t \in CallableTasks :
        LET call == [IdleProc EXCEPT !.op = "InspectTask", !.task = t, !.pc = "done"]
        IN proc' = [Settled EXCEPT ![p] =
            IF tasks[t] = 0 THEN [call EXCEPT !.result = "err_notfound"]
            ELSE [call EXCEPT !.result = "ok", !.status = TaskStatus(heap[tasks[t]])]]
    /\ UNCHANGED <<driverVars, storeVars, watcher, daemonVars, persisted, now,
                   lifeVars, noDeadline>>

\* SignalTask: the registry test; the signal is not forwarded
SignalTask(p) ==
    /\ CanCall(p)
    /\ Budget
    /\ \E t \in CallableTasks :
        LET call == [IdleProc EXCEPT !.op = "SignalTask", !.task = t, !.pc = "done"]
        IN proc' = [Settled EXCEPT ![p] =
            IF tasks[t] = 0 THEN [call EXCEPT !.result = "err_notfound"]
            ELSE [call EXCEPT !.result = "ok"]]
    /\ UNCHANGED <<driverVars, storeVars, watcher, daemonVars, persisted, now,
                   lifeVars, noDeadline>>

\* --------------------------------------------------------------- Shutdown
\* a Shutdown that gives up at the first error
ShutdownAfter_Abort(step, ok) ==
    IF ~ok THEN "done" ELSE IF step = "delete" THEN "shutClose" ELSE "shutCancel"

\* where Shutdown goes after DeleteSession and after Close: their errors are
\* logged and nothing else
ShutdownAfter(step, ok) == IF step = "delete" THEN "shutClose" ELSE "shutCancel"

\* Shutdown: DeleteSession when a session id is cached and a client exists
Shutdown(p) ==
    /\ CanCall(p)
    /\ Budget
    /\ \E ok \in BOOLEAN :
        LET call == [IdleProc EXCEPT !.op = "Shutdown",
                                     !.pc = ShutdownAfter("delete", ok)]
        IN IF sessionID # "" /\ daemonClient # "nil"
           THEN /\ ok => (ClientUsable /\ sessionID \in sessions)
                /\ sessions' = IF ok THEN sessions \ {sessionID} ELSE sessions
                /\ proc' = [Settled EXCEPT ![p] = [call EXCEPT !.rpcs = {"DeleteSession"}]]
           ELSE /\ ok
                /\ proc' = [Settled EXCEPT ![p] = call]
                /\ UNCHANGED sessions
    /\ noDeadline' = IF sessionID # "" /\ daemonClient # "nil"
                     THEN Issued("DeleteSession",
                                 WithTimeout(Background, deleteSessionTimeout))
                     ELSE noDeadline
    /\ UNCHANGED <<driverVars, storeVars, watcher, executions, persisted, now,
                   lifeVars>>

\* Shutdown: d.daemonClient.Close()
ShutdownClose(p) ==
    /\ proc[p].pc = "shutClose"
    /\ daemonClient' = IF daemonClient = "nil" THEN "nil" ELSE "closed"
    /\ \E ok \in BOOLEAN :
        /\ daemonClient = "nil" => ok
        /\ proc' = [Settled EXCEPT ![p] =
                [proc[p] EXCEPT !.pc = ShutdownAfter("close", ok)]]
    /\ UNCHANGED <<sessionID, sessionLock, ctxDone, storeVars, watcher,
                   daemonVars, persisted, now, lifeVars, noDeadline, ncalls>>

\* Shutdown: d.signalShutdown()
ShutdownCancel(p) ==
    /\ proc[p].pc = "shutCancel"
    /\ ctxDone' = TRUE
    /\ proc' = [Settled EXCEPT ![p] = Return(p, "ok")]
    /\ UNCHANGED <<daemonClient, sessionID, sessionLock, storeVars, watcher,
                   daemonVars, persisted, now, lifeVars, noDeadline, ncalls>>

\* ------------------------------------------------------------ Fingerprint
\* handleFingerprint: the timer fires and buildFingerprint runs once; it calls
\* Health when the daemon socket exists and a client is there
Fingerprint ==
    /\ ~ctxDone
    /\ \E socket \in BOOLEAN :
        noDeadline' = IF socket /\ daemonClient # "nil"
                      THEN Issued("Health", Background)
                      ELSE noDeadline
    /\ proc' = Settled
    /\ UNCHANGED <<driverVars, storeVars, watcher, daemonVars, persisted, now,
                   lifeVars, ncalls>>

\* buildFingerprint: socket tells whether os.Stat finds the socket path,
\* client is d.daemonClient, healthy whether a Health RPC succeeds
buildFingerprint(socket, client, healthy) ==
    IF ~socket
    THEN [Health |-> "undetected", socket |-> FALSE, called |-> FALSE, ok |-> FALSE]
    ELSE IF client # "nil" /\ ~healthy
    THEN [Health |-> "unhealthy", socket |-> TRUE, called |-> TRUE, ok |-> FALSE]
    ELSE [Health |-> "healthy", socket |-> TRUE, called |-> client # "nil",
          ok |-> client # "nil"]

\* Fingerprint: make the channel and start handleFingerprint on it
FingerprintCall ==
    /\ fingerprinter.state = "unused"
    /\ fingerprinter' = [IdleFingerprinter EXCEPT !.state = "select"]
    /\ proc' = Settled
    /\ UNCHANGED <<driverVars, storeVars, watcher, daemonVars, persisted, now,
                   restarts, hostname, noDeadline, ncalls>>

\* the caller of Fingerprint cancels the context it passed
FingerprintCancel ==
    /\ fingerprinter.state \in {"select", "sending"}
    /\ ~fingerprinter.ctxDone
    /\ fingerprinter' = [fingerprinter EXCEPT !.ctxDone = TRUE]
    /\ proc' = Settled
    /\ UNCHANGED <<driverVars, storeVars, watcher, daemonVars, persisted, now,
                   restarts, hostname, noDeadline, ncalls>>

\* handleFingerprint: the select takes ctx.Done() or d.ctx.Done(); the
\* deferred close(ch) runs
FingerprintStop ==
    /\ fingerprinter.state = "select"
    /\ fingerprinter.ctxDone \/ ctxDone
    /\ fingerprinter' = [fingerprinter EXCEPT !.state = "closed",
                                              !.fp = NoFingerprint]
    /\ proc' = Settled
    /\ UNCHANGED <<driverVars, storeVars, watcher, daemonVars, persisted, now,
                   restarts, hostname, noDeadline, ncalls>>

\* handleFingerprint: the select takes ticker.C, buildFingerprint runs and the
\* goroutine goes into "ch <-"
FingerprintTick ==
    /\ fingerprinter.state = "select"
    /\ \E socket \in BOOLEAN, healthy \in BOOLEAN :
        /\ healthy => ClientUsable
        /\ LET fp == buildFingerprint(socket, daemonClient, healthy)
           IN /\ fingerprinter' = [fingerprinter EXCEPT !.state = "sending",
                                                        !.fp = fp]
              /\ noDeadline' = IF fp.called THEN Issued("Health", Background)
                                ELSE noDeadline
    /\ proc' = Settled
    /\ UNCHANGED <<driverVars, storeVars, watcher, daemonVars, persisted, now,
                   restarts, hostname, ncalls>>

\* the consumer receives the fingerprint from the channel (two receptions
\* are told apart, not more)
FingerprintReceive ==
    /\ fingerprinter.state = "sending"
    /\ fingerprinter' = [fingerprinter EXCEPT
            !.state = "select", !.fp = NoFingerprint,
            !.received = IF @ < 2 THEN @ + 1 ELSE @]
    /\ proc' = Settled
    /\ UNCHANGED <<driverVars, storeVars, watcher, daemonVars, persisted, now,
                   restarts, hostname, noDeadline, ncalls>>

\* ------------------------------------------------------------ environment
\* the plugin process exits and a new one starts (NewPlugin): everything in
\* memory is gone, the daemon and Nomad's stored driver state remain
Restart ==
    /\ restarts < MaxRestarts
    /\ restarts' = restarts + 1
    /\ hostname' \in (IF sessions = {} THEN {hostname} ELSE Hostnames)
    /\ fingerprinter' = IdleFingerprinter
    /\ noDeadline' = {}
    /\ daemonClient' = "nil"
    /\ sessionID' = ""
    /\ sessionLock' = 0
    /\ ctxDone' = FALSE
    /\ tasks' = [t \in TaskIds |-> 0]
    /\ heap' = [h \in HandleIds |-> NoHandle]
    /\ nhandles' = 0
    /\ proc' = [p \in Procs |-> IdleProc]
    /\ watcher' = [w \in Watchers |-> IdleWatcher]
    /\ UNCHANGED <<daemonVars, persisted, now, ncalls>>

\* outcomes with which the daemon ends an execution by itself
Outcomes ==
    { [status |-> "completed", complete |-> TRUE, exitCode |-> 0, error |-> ""],
      [status |-> "failed", complete |-> TRUE, exitCode |-> 1, error |-> "boom"] }

\* the daemon ends a running execution
DaemonFinish(e) ==
    /\ executions[e].exists
    /\ ~executions[e].complete
    /\ \E o \in Outcomes :
        executions' = [executions EXCEPT ![e] =
            [@ EXCEPT !.status = o.status, !.complete = TRUE,
                      !.exitCode = o.exitCode, !.error = o.error]]
    /\ proc' = Settled
    /\ UNCHANGED <<driverVars, storeVars, watcher, sessions, persisted,
                   now, lifeVars, noDeadline, ncalls>>

Next ==
    \/ \E p \in Procs : SetConfig(p)
    \/ \E p \in Procs : EnsureEnter(p)
    \/ \E p \in Procs : EnsureLock(p)
    \/ \E p \in Procs : EnsureCreate(p)
    \/ \E p \in Procs : EnsureGet(p)
    \/ \E p \in Procs : StartTask(p)
    \/ \E p \in Procs : StartResolve(p)
    \/ \E p \in Procs : StartExecute(p)
    \/ \E p \in Procs : StartBuild(p)
    \/ \E p \in Procs : StartRegister(p)
    \/ \E p \in Procs : RecoverTask(p)
    \/ \E p \in Procs : RecoverConnect(p)
    \/ \E p \in Procs : RecoverSession(p)
    \/ \E p \in Procs : RecoverStatus(p)
    \/ \E p \in Procs : RecoverRegister(p)
    \/ \E p \in Procs : WaitTask(p)
    \/ \E w \in Watchers : CancelWait(w)
    \/ \E w \in Watchers : WatcherStop(w)
    \/ \E w \in Watchers : WatcherTick(w)
    \/ \E w \in Watchers : WatcherPollReturn(w)
    \/ \E w \in Watchers : WatcherDeliver(w)
    \/ \E p \in Procs : StopTask(p)
    \/ \E p \in Procs : DestroyTask(p)
    \/ \E p \in Procs : InspectTask(p)
    \/ \E p \in Procs : SignalTask(p)
    \/ \E p \in Procs : Shutdown(p)
    \/ \E p \in Procs : ShutdownClose(p)
    \/ \E p \in Procs : ShutdownCancel(p)
    \/ Fingerprint
    \/ Restart
    \/ \E e \in TaskIds : DaemonFinish(e)

Spec == Init /\ [][Next]_vars

\* ------------------------------------------------------------- progress
\* no driver call is in progress
Quiet == \A p \in Procs : Free(p)

\* The driver with a caller that makes its calls one after the other (the
\* handleWait goroutines and the daemon run alongside as before). No
\* assignment of d.sessionID is then pending inside a StartTask, which leaves
\* StartBuild without a case.
SeqNext ==
    \/ \E p \in Procs : Quiet /\ SetConfig(p)
    \/ \E p \in Procs : EnsureEnter(p)
    \/ \E p \in Procs : EnsureLock(p)
    \/ \E p \in Procs : EnsureCreate(p)
    \/ \E p \in Procs : EnsureGet(p)
    \/ \E p \in Procs : Quiet /\ StartTask(p)
    \/ \E p \in Procs : StartResolve(p)
    \/ \E p \in Procs : StartExecute(p)
    \/ \E p \in Procs : StartRegister(p)
    \/ \E p \in Procs : Quiet /\ RecoverTask(p)
    \/ \E p \in Procs : RecoverConnect(p)
    \/ \E p \in Procs : RecoverSession(p)
    \/ \E p \in Procs : RecoverStatus(p)
    \/ \E p \in Procs : RecoverRegister(p)
    \/ \E p \in Procs : Quiet /\ WaitTask(p)
    \/ \E w \in Watchers : CancelWait(w)
    \/ \E w \in Watchers : WatcherStop(w)
    \/ \E w \in Watchers : WatcherTick(w)
    \/ \E w \in Watchers : WatcherPollReturn(w)
    \/ \E w \in Watchers : WatcherDeliver(w)
    \/ \E p \in Procs : Quiet /\ StopTask(p)
    \/ \E p \in Procs : Quiet /\ DestroyTask(p)
    \/ \E p \in Procs : Quiet /\ InspectTask(p)
    \/ \E p \in Procs : Quiet /\ SignalTask(p)
    \/ \E p \in Procs : Quiet /\ Shutdown(p)
    \/ \E p \in Procs : ShutdownClose(p)
    \/ \E p \in Procs : ShutdownCancel(p)
    \/ Fingerprint
    \/ Restart
    \/ \E e \in TaskIds : DaemonFinish(e)

\* The goroutines of the driver keep running: a handleWait goroutine gets its
\* tick every second and its status RPC returns within statusRequestTimeout;
\* a select with a cancelled context ready picks it sooner or later (Go picks
\* at random among the ready cases); Shutdown's statements follow one another.
\* Whether a consumer receives from a WaitTask channel is not the driver's.
Progress ==
    /\ \A w \in Watchers :
        /\ WF_vars(WatcherTick(w))
        /\ WF_vars(WatcherPollReturn(w))
        /\ SF_vars(WatcherStop(w))
    /\ \A p \in Procs :
        /\ WF_vars(ShutdownClose(p))
        /\ WF_vars(ShutdownCancel(p))

LiveSpec == Init /\ [][SeqNext]_vars /\ Progress

\* the same, with consumers that receive what a WaitTask channel offers
WaitSpec == LiveSpec /\ \A w \in Watchers : WF_vars(WatcherDeliver(w))


\* ------------------------------------------------- status reports at large
\* what a daemon can put in a GetExecutionStatusResponse with complete set:
\* the three terminal values of ExecutionStatus, an int32 exit code (negative,
\* zero, positive) and an error string (empty or not)
ReportedStatuses == {"completed", "failed", "cancelled"}
ReportedExitCodes == {0 - 1, 0, 1}
ReportedErrors == {"", "boom"}

Reports ==
    [status : ReportedStatuses, complete : {TRUE},
     exitCode : ReportedExitCodes, error : ReportedErrors]

\* the driver after SetConfig and a successful StartTask("t1"), with the
\* execution ended by the daemon with any of the reports
ReportInit ==
    /\ daemonClient = "open"
    /\ sessionID = "nomad-host"
    /\ sessionLock = 0
    /\ ctxDone = FALSE
    /\ tasks = [t \in TaskIds |-> IF t = "t1" THEN 1 ELSE 0]
    /\ heap = [h \in HandleIds |->
                IF h = 1 THEN StartedHandle("t1", "t1", "nomad-host", "running", 0)
                ELSE NoHandle]
    /\ nhandles = 1
    /\ proc = [p \in Procs |-> IdleProc]
    /\ watcher = [w \in Watchers |-> IdleWatcher]
    /\ sessions = {"nomad-host"}
    /\ \E r \in Reports :
        executions = [e \in TaskIds |->
            IF e = "t1"
            THEN [exists |-> TRUE, sessionId |-> "nomad-host",
                  status |-> r.status, complete |-> TRUE,
                  exitCode |-> r.exitCode, error |-> r.error]
            ELSE NoExecution]
    /\ persisted = [t \in TaskIds |->
                IF t = "t1" THEN StartedState("t1", "t1", "nomad-host", 0)
                ELSE NoTaskState]
    /\ now = 1
    /\ restarts = 0
    /\ hostname = "host"
    /\ noDeadline = {"Health"}
    /\ fingerprinter = IdleFingerprinter
    /\ ncalls = 2

\* WaitTask, its handleWait goroutines and InspectTask on that task
ReportNext ==
    \/ \E p \in Procs : WaitTask(p)
    \/ \E w \in Watchers : CancelWait(w)
    \/ \E w \in Watchers : WatcherStop(w)
    \/ \E w \in Watchers : WatcherTick(w)
    \/ \E w \in Watchers : WatcherPollReturn(w)
    \/ \E w \in Watchers : WatcherDeliver(w)
    \/ \E p \in Procs : InspectTask(p)

ReportSpec == ReportInit /\ [][ReportNext]_vars


\* ------------------------------------------------- the fingerprint loop
\* SetConfig, Fingerprint with its handleFingerprint goroutine, and Shutdown
FingerprintNext ==
    \/ \E p \in Procs : SetConfig(p)
    \/ \E p \in Procs : EnsureEnter(p)
    \/ \E p \in Procs : EnsureLock(p)
    \/ \E p \in Procs : EnsureCreate(p)
    \/ \E p \in Procs : EnsureGet(p)
    \/ \E p \in Procs : Shutdown(p)
    \/ \E p \in Procs : ShutdownClose(p)
    \/ \E p \in Procs : ShutdownCancel(p)
    \/ FingerprintCall
    \/ FingerprintCancel
    \/ FingerprintStop
    \/ FingerprintTick
    \/ FingerprintReceive

FingerprintSpec == Init /\ [][FingerprintNext]_vars

\* The goroutine keeps running: a select with a cancelled context ready picks
\* it sooner or later, and Shutdown's statements follow one another. Whether
\* the consumer receives from the channel is not the driver's.
FingerprintLiveSpec ==
    /\ FingerprintSpec
    /\ SF_vars(FingerprintStop)
    /\ \A p \in Procs : WF_vars(ShutdownClose(p)) /\ WF_vars(ShutdownCancel(p))


\* ================================================================= claims
\* the step is not a process restart
SameProcess == restarts' = restarts

\* the call of p has just returned (in a step that changes the state, the
\* callers with pc "done" afterwards are the ones the step made return)
Returned(p, op) == proc[p].pc = "done" /\ proc[p].op = op

\* the step in which caller p makes the driver call op
Began(p, op) ==
    /\ Free(p)
    /\ ncalls' = ncalls + 1
    /\ proc'[p].op = op
    /\ proc'[p].pc # "idle"

\* the watchers whose channel delivered a result for handle h
Delivering(h) == {w \in Watchers : watcher[w].h = h /\ watcher[w].delivered # <<>>}

\* C1: for a task started by StartTask, the WaitTask channels taken together
\* deliver at most one result: a second WaitTask on the task id delivers no
\* second result.
C1_OneResultPerTask == \A h \in HandleIds : Cardinality(Delivering(h)) <= 1

\* C2: once a handle has an exit result, no step changes the result or the
\* completion time (first write wins).
C2_FirstWriteWins ==
    [][SameProcess =>
        \A h \in HandleIds :
            heap[h].exitResult.set =>
                /\ heap'[h].exitResult = heap[h].exitResult
                /\ heap'[h].completedAt = heap[h].completedAt]_vars


\* ensureSession has returned success to the StartTask of p, which goes on
PastEnsure(p) ==
    /\ proc[p].op = "StartTask"
    /\ proc[p].pc \in {"resolve", "exec", "build", "register"}

\* the StartTask of p made bootstrap RPCs in its ensureSession
Bootstrapped(p) == proc[p].rpcs \cap {"CreateSession", "GetSession"} # {}

\* p is inside the bootstrap loop of ensureSession
Bootstrapping(p) == proc[p].pc \in {"create", "get"}

\* the ids the cached session id can hold: the one generated for this host,
\* or one RecoverTask restored from a snapshot
KnownSessionIDs ==
    {HostSessionID} \cup
        {persisted[t].SessionId : t \in {u \in TaskIds : persisted[u].present}}

NotEnabled(cfg) == cfg.decodable /\ cfg.Language \notin EnabledLanguages

\* C4: a StartTask whose language is not enabled returns an error, has made
\* no RPC, and its return leaves the registry, the handles and the daemon as
\* they were, with or without a cached session id.
C4_LanguageRejected ==
    [][\A p \in Procs :
        (Returned(p, "StartTask")' /\ NotEnabled(proc'[p].cfg) /\ SameProcess)
        => /\ proc'[p].result \in {"err_exists", "err_config", "err_language"}
           /\ proc'[p].rpcs = {}
           /\ ~proc'[p].created
           /\ UNCHANGED <<storeVars, daemonVars, persisted, sessionID>>]_vars

\* C4 witness: with a session id cached, a StartTask for ruby has returned the
\* language error.
C4_Witness ==
    \E p \in Procs :
        /\ Returned(p, "StartTask")
        /\ proc[p].cfg.Language = "ruby"
        /\ proc[p].result = "err_language"
        /\ sessionID # ""

\* C5: a StartTask that fails with a config, language or resource-resolution
\* error has made no RPC.
C5_NoRpcBeforeLocalErrors ==
    \A p \in Procs :
        (Returned(p, "StartTask")
            /\ proc[p].result \in {"err_config", "err_language", "err_escape",
                                   "err_read"})
        => proc[p].rpcs = {}

\* the errors of the stages of StartTask after the double-start guard
StageErrors ==
    {"err_decode", "err_config", "err_language", "err_escape", "err_read",
     "err_session", "err_execute", "err_persist"}

\* C6: a StartTask that returns an error from any stage has registered no
\* handle and has created no execution in the daemon.
C6_FailedStartLeavesNothing ==
    [][\A p \in Procs :
        (Returned(p, "StartTask")' /\ proc'[p].result \in StageErrors
            /\ SameProcess)
        => (tasks' = tasks /\ ~proc'[p].created)]_vars


\* C7: DestroyTask on a registered task: without force and without an exit
\* result it returns an error and the registry keeps the entry; with force, or
\* with an exit result, it removes the entry.
C7_DestroyForce ==
    [][\A p \in Procs :
        LET t == proc'[p].task
        IN (Returned(p, "DestroyTask")' /\ SameProcess /\ tasks[t] # 0)
           => IF IsRunning(heap[tasks[t]]) /\ ~proc'[p].force
              THEN proc'[p].result = "err_running" /\ tasks' = tasks
              ELSE /\ proc'[p].result = "ok"
                   /\ tasks' = [tasks EXCEPT ![t] = 0]]_vars

\* C7 witness: a DestroyTask without force has removed a task whose handle
\* had an exit result.
C7_Witness ==
    \E p \in Procs :
        /\ Returned(p, "DestroyTask")
        /\ ~proc[p].force
        /\ proc[p].result = "ok"
        /\ tasks[proc[p].task] = 0
        /\ \E h \in HandleIds :
            heap[h].taskId = proc[p].task /\ heap[h].exitResult.set

\* the step in which p's RecoverTask registers its rebuilt handle
RecoverRegisters(p) ==
    /\ proc[p].pc = "register"
    /\ proc[p].op = "RecoverTask"
    /\ SameProcess
    /\ proc'[p].pc = "done"

RecoverStep(p) ==
    /\ SameProcess
    /\ proc'[p].op = "RecoverTask"
    /\ proc'[p] # proc[p]

\* C9: RecoverTask makes no RPC but GetExecutionStatus, and its steps leave
\* the daemon's executions and sessions as they are.
C9_RecoverOnlyPolls ==
    /\ [](\A p \in Procs :
            proc[p].op = "RecoverTask" =>
                /\ proc[p].rpcs \subseteq {"GetExecutionStatus"}
                /\ ~proc[p].created)
    /\ [][\A p \in Procs : RecoverStep(p) => UNCHANGED daemonVars]_vars

\* C9 witness: a RecoverTask in a restarted process has registered its handle
\* after one GetExecutionStatus.
C9_Witness ==
    \E p \in Procs :
        /\ Returned(p, "RecoverTask")
        /\ proc[p].result = "ok"
        /\ proc[p].rpcs = {"GetExecutionStatus"}
        /\ restarts = 1
        /\ tasks[proc[p].task] # 0

\* the result a watcher sends for a failed poll
PollErrorResult == [set |-> TRUE, ExitCode |-> 0, Err |-> "poll"]

\* C10: a watcher whose poll failed is sending the result that carries the
\* error, or has delivered just that result and closed its channel; it is
\* never again waiting for a tick or polling.
C10_PollErrorEndsWatcher ==
    \A w \in Watchers :
        watcher[w].pollFailed =>
            \/ /\ watcher[w].state = "sending"
               /\ watcher[w].result = PollErrorResult
               /\ watcher[w].delivered = <<>>
            \/ /\ watcher[w].state = "closed"
               /\ watcher[w].delivered = <<PollErrorResult>>

\* C10 witness: a watcher has delivered a poll error and closed.
C10_Witness ==
    \E w \in Watchers :
        /\ watcher[w].pollFailed
        /\ watcher[w].state = "closed"
        /\ watcher[w].delivered = <<PollErrorResult>>

\* C11: a result delivered for a failed status poll carries a non-zero exit
\* code together with its error, like the result of a failed execution.
C11_PollErrorNonZero ==
    \A w \in Watchers :
        (watcher[w].pollFailed /\ watcher[w].delivered # <<>>)
        => /\ watcher[w].delivered[1].ExitCode # 0
           /\ watcher[w].delivered[1].Err # ""

\* the watcher w has a poll to make, or in flight, for a task whose execution
\* the daemon reports complete
PollsComplete(w) ==
    /\ watcher[w].state \in {"select", "polling"}
    /\ executions[watcher[w].task].complete

\* what ends the premise of C12 for w: a poll of w failed, its caller's
\* context or the driver's was cancelled, the process restarted, or the task
\* id was started again so that the daemon reports it running once more
WaitDisturbed(w) ==
    \/ watcher[w].pollFailed
    \/ watcher[w].ctxDone
    \/ ctxDone
    \/ watcher[w].state = "unused"
    \/ ~executions[watcher[w].task].complete

\* the channel of w delivered the daemon's exit code and the handle is
\* terminal
DeliveredExit(w) ==
    /\ watcher[w].state = "closed"
    /\ Len(watcher[w].delivered) = 1
    /\ watcher[w].delivered[1].ExitCode = executions[watcher[w].task].exitCode
    /\ ~IsRunning(heap[watcher[w].h])

C13_SessionIdImmutable ==
    [][(SameProcess /\ sessionID # "") => sessionID' = sessionID]_vars

\* C14: no ExecuteSnippet is issued with an empty session id, and the handle
\* StartTask registers carries the session id its ExecuteSnippet carried, the
\* one cached for the process.
C14_OneSessionPerProcess ==
    /\ \A p \in Procs : proc[p].pc = "exec" => sessionID # ""
    /\ \A p \in Procs :
        (Returned(p, "StartTask") /\ proc[p].result = "ok"
            /\ tasks[proc[p].task] # 0)
        => LET h == heap[tasks[proc[p].task]]
           IN /\ h.sessionId # ""
              /\ h.sessionId = executions[h.executionId].sessionId
              /\ h.sessionId = sessionID

\* C15: a StartTask for a task id that is in the registry returns an error in
\* the step that makes the call, with no RPC issued and with the registry, the
\* handles, the daemon and the persisted state left as they were.
C15_DoubleStartRejected ==
    [][\A p \in Procs :
        (Began(p, "StartTask") /\ tasks[proc'[p].task] # 0)
        => /\ proc'[p].pc = "done"
           /\ proc'[p].result = "err_exists"
           /\ proc'[p].rpcs = {}
           /\ UNCHANGED <<storeVars, daemonVars, persisted, driverVars>>]_vars

C15_Witness ==
    \E p \in Procs :
        /\ Returned(p, "StartTask")
        /\ proc[p].result = "err_exists"
        /\ tasks[proc[p].task] # 0
        /\ heap[tasks[proc[p].task]].taskId = proc[p].task
        /\ proc[p].cfg = Cfg("", "print(1)", "python")

\* a StartTask whose script path leaves the task directory
EscapingStart(p) ==
    /\ proc[p].op = "StartTask"
    /\ proc[p].cfg.Code = ""
    /\ proc[p].cfg.Script # ""
    /\ EscapesTaskDir(proc[p].cfg.Script)

\* C16: a StartTask whose script path leaves the task directory never calls
\* os.ReadFile, never reaches ExecuteSnippet, and returns an error.
C16_EscapeNotRead ==
    \A p \in Procs :
        EscapingStart(p)
        => /\ ~proc[p].read
           /\ proc[p].pc \notin {"exec", "build", "register"}
           /\ "ExecuteSnippet" \notin proc[p].rpcs
           /\ proc[p].pc = "done" => proc[p].result \in {"err_exists", "err_session", "err_escape"}

C16_Witness ==
    \E p \in Procs :
        /\ Returned(p, "StartTask")
        /\ EscapingStart(p)
        /\ proc[p].result = "err_escape"
        /\ ~proc[p].read
        /\ sessionID # ""

\* the step in which the ensureSession of p's StartTask gives up: its last
\* GetSession has failed
Exhausts(p) ==
    /\ proc[p].pc = "get"
    /\ proc[p].op = "StartTask"
    /\ proc'[p].pc = "done"
    /\ proc'[p].result = "err_session"

\* p's StartTask takes sessionLock in this step
TakesLock(p) ==
    /\ proc[p].pc = "lock"
    /\ proc[p].op = "StartTask"
    /\ SameProcess
    /\ proc'[p].pc # "lock"

\* p's StartTask has its CreateSession accepted in this step
Accepted(p) ==
    /\ proc[p].pc = "create"
    /\ proc[p].op = "StartTask"
    /\ SameProcess
    /\ sessions' # sessions \/ proc'[p].pc = "resolve"

\* C17: a StartTask whose ensureSession exhausts its attempts returns an
\* error after every attempt made both RPCs, registers no handle, releases
\* the lock and leaves the cached session id empty; a StartTask that then
\* takes the lock starts the bootstrap from its first attempt, and one whose
\* CreateSession is accepted caches the id and goes on.
C17_ExhaustedBootstrap ==
    [][\A p \in Procs :
        /\ Exhausts(p)
           => /\ proc[p].i = attempts - 1
              /\ proc'[p].rpcs = {"CreateSession", "GetSession"}
              /\ UNCHANGED storeVars
              /\ tasks[proc[p].task] = 0 \/ heap[tasks[proc[p].task]].sessionId # ""
              /\ sessionLock = p /\ sessionLock' = 0
              /\ sessionID' = ""
        /\ (TakesLock(p) /\ sessionID = "")
           => proc'[p].pc = "create" /\ proc'[p].i = 0 /\ sessionLock' = p
        /\ Accepted(p)
           => /\ proc'[p].pc = "resolve"
              /\ sessionID' = generateSessionID("")
              /\ sessionID' \in sessions'
              /\ sessionLock' = 0]_vars

\* caller p is inside Shutdown
InShutdown(p) == proc[p].op = "Shutdown" /\ proc[p].pc \in {"shutClose", "shutCancel"}

\* Shutdown has returned to p, the context cancelled
ShutdownDone(p) ==
    /\ Returned(p, "Shutdown")
    /\ proc[p].result = "ok"
    /\ ctxDone

\* the steps of Shutdown in their order: DeleteSession exactly when an id is
\* cached and a client exists, then Close, then the cancellation, then "ok"
ShutdownOrder ==
    [][\A p \in Procs :
        /\ Began(p, "Shutdown")
           => /\ proc'[p].pc = "shutClose"
              /\ ("DeleteSession" \in proc'[p].rpcs)
                    <=> (sessionID # "" /\ daemonClient # "nil")
              /\ UNCHANGED <<daemonClient, ctxDone>>
        /\ (proc[p].pc = "shutClose" /\ proc'[p].pc # "shutClose" /\ SameProcess)
           => /\ proc'[p].pc = "shutCancel"
              /\ daemonClient' # "open"
              /\ UNCHANGED <<ctxDone, sessions>>
        /\ (proc[p].pc = "shutCancel" /\ proc'[p].pc # "shutCancel" /\ SameProcess)
           => /\ ShutdownDone(p)'
              /\ UNCHANGED <<daemonClient, sessions>>]_vars

\* C18: Shutdown issues DeleteSession only when a session id is cached, then
\* closes the client, then cancels the process-wide context, whatever
\* DeleteSession and Close returned, and every Shutdown that was called
\* returns "ok" with all of it done, unless the process ends first.
C18_ShutdownCompletes ==
    /\ ShutdownOrder
    /\ \A p \in Procs : \A r \in 0..MaxRestarts :
        (InShutdown(p) /\ restarts = r) ~> (ShutdownDone(p) \/ restarts # r)

C18_Witness ==
    \E p \in Procs :
        /\ ShutdownDone(p)
        /\ "DeleteSession" \in proc[p].rpcs
        /\ sessionID \in sessions
        /\ daemonClient = "closed"

\* the handleWait goroutine w is running
WatcherRunning(w) == watcher[w].state \in {"select", "polling", "sending"}

\* the handleWait goroutine w has returned and closed its channel, or its
\* process is gone
WatcherEnded(w) == watcher[w].state \in {"closed", "unused"}

\* C19: once the process-wide context is cancelled, every handleWait
\* goroutine that is running, at its select, in a poll or blocked sending its
\* result, eventually returns and closes its channel.
C19_WatchersStopOnShutdown ==
    \A w \in Watchers : (ctxDone /\ WatcherRunning(w)) ~> WatcherEnded(w)

\* C20: no RPC is issued to the daemon under a context without a deadline, at
\* any call site.
C20_EveryRpcHasDeadline == noDeadline = {}

\* C21: a StopTask for a registered task issues CancelExecution, and nothing
\* else, with the session id and the execution id of that task's handle; the
\* registry, all handles, all watchers, the sessions, the persisted state and
\* every other execution stay as they were.
C21_StopTaskFrame ==
    [][\A p \in Procs :
        (Began(p, "StopTask") /\ tasks[proc'[p].task] # 0)
        => LET t == proc'[p].task
               h == heap[tasks[t]]
           IN /\ proc'[p].pc = "done"
              /\ proc'[p].rpcs = {"CancelExecution"}
              /\ h.taskId = t
              /\ proc'[p].req.sessionId = h.sessionId
              /\ proc'[p].req.executionId = h.executionId
              /\ h.sessionId # "" /\ h.executionId # ""
              /\ UNCHANGED <<storeVars, watcher, sessions, persisted, driverVars>>
              /\ \A e \in TaskIds :
                    e # h.executionId => executions'[e] = executions[e]]_vars

C21_Witness ==
    \E p \in Procs :
        /\ Returned(p, "StopTask")
        /\ proc[p].result = "ok"
        /\ proc[p].task = "t2"
        /\ proc[p].req.executionId = "t2"
        /\ executions["t2"].status = "cancelled"
        /\ tasks["t1"] # 0
        /\ executions["t1"].exists /\ ~executions["t1"].complete

\* the driver calls that look a task up by its id and do nothing else first
LookupOps == {"StopTask", "DestroyTask", "SignalTask", "InspectTask"}

\* C22: StopTask, DestroyTask, SignalTask and InspectTask for a task id that is
\* not in the registry return the not-found error at once, issue no RPC and
\* change nothing.
C22_NotFoundReturned ==
    [][\A p \in Procs : \A op \in LookupOps :
        (Began(p, op) /\ tasks[proc'[p].task] = 0)
        => /\ proc'[p].pc = "done"
           /\ proc'[p].result = "err_notfound"
           /\ proc'[p].rpcs = {}
           /\ UNCHANGED <<driverVars, storeVars, watcher, daemonVars,
                          persisted>>]_vars

\* C23: DestroyTask returns in the step that makes the call without any RPC
\* and without a change at the daemon; for a task id that is not in the
\* registry it returns success and leaves the registry as it was.
C23_DestroyNoRpc ==
    [][\A p \in Procs :
        Began(p, "DestroyTask")
        => /\ proc'[p].pc = "done"
           /\ proc'[p].rpcs = {}
           /\ UNCHANGED <<daemonVars, noDeadline, heap, nhandles, watcher,
                          persisted, driverVars>>
           /\ tasks[proc'[p].task] = 0
              => proc'[p].result = "ok" /\ UNCHANGED tasks]_vars

C23_Witness ==
    \E p \in Procs :
        /\ Returned(p, "DestroyTask")
        /\ proc[p].result = "ok"
        /\ proc[p].rpcs = {}
        /\ proc[p].task = "t2"
        /\ ~persisted["t2"].present
        /\ ~executions["t2"].exists
        /\ tasks["t1"] # 0

\* C24: when a StartTask has returned success, the persisted driver state of
\* its task holds the execution id, the session id, the task and the start
\* time of the handle registered for the task, and neither id is empty.
C24_SnapshotMatchesHandle ==
    \A p \in Procs :
        (Returned(p, "StartTask") /\ proc[p].result = "ok")
        => LET t == proc[p].task
               h == heap[tasks[t]]
               ts == persisted[t]
           IN /\ tasks[t] # 0
              /\ ts.present
              /\ ts.ExecutionId = h.executionId
              /\ ts.SessionId = h.sessionId
              /\ ts.TaskID = h.taskId
              /\ ts.StartedAt = h.startedAt
              /\ ts.ExecutionId # ""
              /\ ts.SessionId # ""

\* the task configs the claim about Validate calls invalid
Malformed(tc) ==
    \/ tc.Script = "" /\ tc.Code = ""
    \/ tc.Script # "" /\ tc.Code # ""
    \/ tc.Language = ""

\* a StartTask call that got as far as Validate
Validated(p) ==
    /\ proc[p].op = "StartTask"
    /\ proc[p].pc # "idle"
    /\ proc[p].cfg.decodable
    /\ proc[p].result # "err_exists"

C26_RecoverIdempotent ==
    [][\A p \in Procs :
        /\ (Began(p, "RecoverTask") /\ tasks[proc'[p].task] # 0)
           => /\ proc'[p].pc = "done"
              /\ proc'[p].result = "ok"
              /\ proc'[p].rpcs = {}
              /\ UNCHANGED <<storeVars, driverVars, daemonVars, persisted,
                             watcher, noDeadline>>
        /\ RecoverRegisters(p)
           => /\ tasks'[proc[p].task] # 0
              /\ proc'[p].result = "ok"]_vars

C26_Witness ==
    \E p \in Procs :
        /\ Returned(p, "RecoverTask")
        /\ proc[p].result = "ok"
        /\ proc[p].rpcs = {}
        /\ restarts = 1
        /\ nhandles = 1
        /\ tasks[proc[p].task] = 1
        /\ heap[1].sessionId = proc[p].ts.SessionId
        /\ sessionID = proc[p].ts.SessionId

\* C27: the handle a RecoverTask registers after a status with complete set
\* has the reported exit code and error as its exit result: it is not running
\* and a DestroyTask without force is not refused; after a status without
\* complete the handle is running.
C27_RecoveredTerminal ==
    [][\A p \in Procs :
        RecoverRegisters(p)
        => LET h == heap'[tasks'[proc[p].task]]
               resp == proc[p].resp
           IN IF resp.complete
              THEN /\ ~IsRunning(h)
                   /\ h.exitResult.ExitCode = resp.exitCode
                   /\ h.exitResult.Err = resp.error
                   /\ TaskStatus(h).State = "exited"
                   /\ ~DestroyRefused(h, FALSE)
              ELSE /\ IsRunning(h)
                   /\ DestroyRefused(h, FALSE)]_vars

C27_Witness ==
    \E p \in Procs :
        /\ Returned(p, "RecoverTask")
        /\ proc[p].result = "ok"
        /\ proc[p].rpcs = {"GetExecutionStatus"}
        /\ restarts = 1
        /\ tasks[proc[p].task] # 0
        /\ heap[tasks[proc[p].task]].exitResult =
                [set |-> TRUE, ExitCode |-> 1, Err |-> "boom"]

\* the step is an ensureSession attempt of p made while p holds sessionLock
EnsureWrites(p) ==
    /\ sessionLock = p
    /\ proc[p].pc \in {"create", "get"}
    /\ proc[p].op \in {"SetConfig", "StartTask"}

\* C28: within one process, every step that changes the cached session id is
\* a CreateSession or GetSession step of an ensureSession that holds
\* sessionLock; no step of a RecoverTask changes it.
C28_OnlyEnsureWrites ==
    [][(SameProcess /\ sessionID' # sessionID)
       => \E p \in Procs : EnsureWrites(p)]_vars

\* caller p is inside the retry loop of ensureSession
InEnsureLoop(p) == proc[p].pc \in {"create", "get"}

\* the step takes p out of ensureSession with an id cached: the id generated
\* for this process, which the daemon holds, and the lock released
EnsureSucceeds(p) ==
    /\ ~InEnsureLoop(p)'
    /\ sessionID' = HostSessionID
    /\ proc[p].pc = "create" => sessionID' \in sessions'
    /\ sessionLock' = 0
    /\ proc'[p].result # "err_session"
    /\ proc[p].op = "StartTask" => proc'[p].pc = "resolve"

\* the step takes p out of ensureSession with the error of line 650-653
EnsureGivesUp(p) ==
    /\ ~InEnsureLoop(p)'
    /\ proc[p].pc = "get"
    /\ proc[p].i = attempts - 1
    /\ sessionID' = sessionID
    /\ sessionLock' = 0
    /\ proc[p].op = "StartTask" => proc'[p].result = "err_session"

\* C29: a caller is in the retry loop of ensureSession only with the client
\* set, the lock held and fewer than 5 attempts behind it. An attempt issues
\* CreateSession, and GetSession only after that CreateSession failed; the
\* first success leaves the loop with the returned id cached; a failed attempt
\* that is not the fifth is followed by its backoff and the next attempt; the
\* call leaves the loop with an error only when the fifth attempt failed.
C29_EnsureLoop ==
    [][\A p \in Procs :
        (SameProcess /\ InEnsureLoop(p) /\ proc'[p] # proc[p])
        => /\ proc[p].i \in 0 .. attempts - 1
           /\ daemonClient # "nil"
           /\ sessionLock = p
           /\ proc[p].pc = "create"
              => /\ proc'[p].rpcs = proc[p].rpcs \cup {"CreateSession"}
                 /\ \/ EnsureSucceeds(p)
                    \/ /\ proc'[p].pc = "get"
                       /\ proc'[p].i = proc[p].i
                       /\ sessionID' = sessionID
                       /\ sessionLock' = p
           /\ proc[p].pc = "get"
              => /\ "CreateSession" \in proc[p].rpcs
                 /\ proc[p].lastErr
                 /\ proc'[p].rpcs = proc[p].rpcs \cup {"GetSession"}
                 /\ \/ EnsureSucceeds(p)
                    \/ EnsureGivesUp(p)
                    \/ /\ proc[p].i < attempts - 1
                       /\ proc'[p].pc = "create"
                       /\ proc'[p].i = proc[p].i + 1
                       /\ proc'[p].waited = proc[p].waited + Backoff(proc[p].i)
                       /\ proc'[p].waited > proc[p].waited
                       /\ sessionID' = sessionID
                       /\ sessionLock' = p]_vars

\* a SetConfig of a restarted process whose CreateSession failed and whose
\* GetSession found the session of the earlier process
C29_Witness ==
    \E p \in Procs :
        /\ Returned(p, "SetConfig")
        /\ proc[p].rpcs = {"Health", "CreateSession", "GetSession"}
        /\ restarts = 1
        /\ sessionID = HostSessionID
        /\ sessionID \in sessions
        /\ sessionLock = 0
        /\ \A t \in TaskIds : persisted[t] = NoTaskState

\* C30: a RecoverTask that has registered its handle and returned nil leaves
\* the cached session id equal to the session id of the snapshot it decoded,
\* when the process has no other id cached. (Within one process the cached
\* id never becomes empty again, so an id that is empty at the return was
\* empty when the call began.)
C30_RecoverRestoresSession ==
    \A p \in Procs :
        (/\ Returned(p, "RecoverTask")
         /\ proc[p].result = "ok"
         /\ proc[p].ts # NoTaskState
         /\ sessionID = "")
        => sessionID = proc[p].ts.SessionId

\* watcher w has a GetExecutionStatus RPC in flight
Polling(w) == watcher[w].state = "polling"

\* the execution watcher w polls
PolledExecution(w) == heap[watcher[w].h].executionId

\* C31: no two GetExecutionStatus polls for the execution of one task are in
\* flight at the same time.
C31_PollsSequential ==
    \A w, v \in Watchers :
        (w # v /\ Polling(w) /\ Polling(v))
        => PolledExecution(w) # PolledExecution(v)

\* the result watcher w has built from a complete status and is sending
BuiltResult(w) == watcher[w].state = "sending" /\ ~watcher[w].pollFailed

\* C32: the result a watcher builds from a complete status has the reported
\* exit code when the status is completed, a non-zero exit code and the
\* reported error text when it is failed, and a negative exit code when it
\* is cancelled.
C32_ResultMapping ==
    \A w \in Watchers :
        BuiltResult(w)
        => LET e == executions[PolledExecution(w)]
               r == watcher[w].result
           IN /\ r.set
              /\ e.status = "completed" => r.ExitCode = e.exitCode
              /\ e.status = "failed" => (r.ExitCode # 0 /\ r.Err = e.error)
              /\ e.status = "cancelled" => r.ExitCode < 0

\* what the code does for every report: the exit code and the error text are
\* copied, whatever the status
ResultCopied ==
    \A w \in Watchers :
        BuiltResult(w)
        => LET e == executions[PolledExecution(w)]
           IN watcher[w].result = ResultOf(StatusResp(e))

\* the step gives handle h its exit result
GetsExitResult(h) == IsRunning(heap[h]) /\ ~IsRunning(heap'[h])

\* in the step a poll of a watcher of handle h returns a complete status
ObservesComplete(h) ==
    \E w \in Watchers :
        /\ watcher[w].h = h
        /\ Polling(w)
        /\ watcher'[w].state = "sending"
        /\ ~watcher'[w].pollFailed

\* in the step a RecoverTask registers handle h after a complete status
RecoversComplete(h) ==
    \E p \in Procs :
        /\ RecoverRegisters(p)
        /\ proc[p].resp.complete
        /\ tasks'[proc[p].task] = h

\* in the step a StopTask has its CancelExecution for handle h accepted
CancelRequested(h) ==
    \E p \in Procs :
        /\ Began(p, "StopTask")
        /\ proc'[p].result = "ok"
        /\ tasks[proc'[p].task] = h

\* a handle gets an exit result only in a step that observes a complete
\* status for it, and gets one in every such step
ExitResultFromComplete ==
    [][\A h \in HandleIds :
        SameProcess
        => /\ GetsExitResult(h) => (ObservesComplete(h) \/ RecoversComplete(h))
           /\ (ObservesComplete(h) \/ RecoversComplete(h))
              => ~IsRunning(heap'[h])]_vars

\* C33: a handle has an exit result exactly from the step on in which a
\* complete status is observed for it, by a watcher or by RecoverTask, or in
\* which cancellation is requested for it through StopTask.
C33_ExitResultIff ==
    [][\A h \in HandleIds :
        SameProcess
        => /\ GetsExitResult(h)
              => (ObservesComplete(h) \/ RecoversComplete(h) \/ CancelRequested(h))
           /\ (ObservesComplete(h) \/ RecoversComplete(h) \/ CancelRequested(h))
              => ~IsRunning(heap'[h])]_vars

\* a fingerprint has been built and is being sent
Fingerprinted == fingerprinter.state = "sending"

\* C34: a fingerprint is undetected when the socket path does not exist,
\* unhealthy when the socket exists and the Health RPC failed, and healthy
\* only when a Health RPC was made and succeeded.
C34_ThreeLevelHealth ==
    Fingerprinted
    => LET fp == fingerprinter.fp
       IN /\ ~fp.socket => fp.Health = "undetected"
          /\ (fp.socket /\ fp.called /\ ~fp.ok) => fp.Health = "unhealthy"
          /\ fp.Health = "healthy" => (fp.called /\ fp.ok)

\* the same with the fingerprints built without a daemon client, for which
\* no Health RPC is made, left aside
FingerprintWithClient ==
    (Fingerprinted /\ (fingerprinter.fp.socket => fingerprinter.fp.called))
    => LET fp == fingerprinter.fp
       IN /\ ~fp.socket => fp.Health = "undetected"
          /\ (fp.socket /\ fp.called /\ ~fp.ok) => fp.Health = "unhealthy"
          /\ fp.Health = "healthy" => (fp.called /\ fp.ok)

\* the handleFingerprint goroutine has been told to stop
FingerprintStopAsked ==
    /\ fingerprinter.state # "unused"
    /\ fingerprinter.ctxDone \/ ctxDone

\* the handleFingerprint goroutine has returned and its channel is closed
FingerprintClosed == fingerprinter.state = "closed"

\* C40: once the context given to Fingerprint is cancelled or Shutdown has
\* cancelled the driver's context, the handleFingerprint goroutine returns
\* and closes its channel, whether or not the consumer still receives.
C40_FingerprintLoopEnds == FingerprintStopAsked ~> FingerprintClosed

\* the same for a goroutine that is not in "ch <-" when it is told to stop
\* and does not go into it afterwards
FingerprintLoopEndsUnblocked ==
    [](FingerprintStopAsked => [](fingerprinter.state # "sending"))
    => (FingerprintStopAsked ~> FingerprintClosed)

\* the StartTask of caller p has issued its ExecuteSnippet
Executed(p) ==
    /\ proc[p].op = "StartTask"
    /\ proc[p].pc # "idle"
    /\ "ExecuteSnippet" \in proc[p].rpcs

\* the step in which the StartTask of caller p registers its handle and
\* returns nil
StartRegisters(p) ==
    /\ proc[p].op = "StartTask"
    /\ proc[p].pc \in {"build", "register"}
    /\ SameProcess
    /\ proc'[p].pc = "done"
    /\ proc'[p].result = "ok"

\* C35: of the StartTask calls in progress for one task id at most one has
\* issued ExecuteSnippet, and a StartTask that returns nil registers its
\* handle under an id that had none.
C35_OneStartPerTask ==
    /\ [](\A p, q \in Procs :
            (p # q /\ Executed(p) /\ Executed(q))
            => proc[p].task # proc[q].task)
    /\ [][\A p \in Procs :
            StartRegisters(p) => tasks[proc[p].task] = 0]_vars

\* the channel of watcher w has delivered a result
Delivered(w) == watcher[w].state = "closed" /\ watcher[w].delivered # <<>>

\* C36: once the channel of a watcher has delivered a result, the handle the
\* watcher was started on is terminal and a DestroyTask without force is not
\* refused for it.
C36_DeliveredIsTerminal ==
    \A w \in Watchers :
        Delivered(w)
        => /\ ~IsRunning(heap[watcher[w].h])
           /\ ~DestroyRefused(heap[watcher[w].h], FALSE)

\* the same for the results built from a complete status only
CompletionIsTerminal ==
    \A w \in Watchers :
        (Delivered(w) /\ ~watcher[w].pollFailed)
        => /\ ~IsRunning(heap[watcher[w].h])
           /\ ~DestroyRefused(heap[watcher[w].h], FALSE)

\* watcher w was started on a handle that was terminal already and is
\* sending a result
SendsForTerminal(w) == watcher[w].state = "sending" /\ watcher[w].stored.set

\* C37: a watcher started by a WaitTask on a handle that was already
\* terminal sends the exit result the handle had stored.
C37_StoredResultDelivered ==
    \A w \in Watchers :
        SendsForTerminal(w) => watcher[w].result = watcher[w].stored

\* the step in which watcher w sends its GetExecutionStatus
IssuesPoll(w) ==
    /\ SameProcess
    /\ watcher[w].state = "select"
    /\ watcher'[w].state = "polling"

\* the step in which a poll of watcher w returns an error
PollFails(w) ==
    /\ SameProcess
    /\ Polling(w)
    /\ watcher'[w].state = "sending"
    /\ watcher'[w].pollFailed

\* C38: no watcher sends a status poll on a daemon client that Shutdown has
\* closed, and no poll of a watcher fails on the closed client while the
\* execution is still running (the watcher would send a failed result).
C38_ShutdownStopsWatchersQuietly ==
    [][\A w \in Watchers :
        /\ IssuesPoll(w) => daemonClient # "closed"
        /\ PollFails(w)
           => ~(daemonClient = "closed"
                /\ ~executions[PolledExecution(w)].complete)]_vars

\* handle h was registered and DestroyTask has deleted the entry of its task
\* id (within one process nothing else empties an entry)
Removed(h) == heap[h] # NoHandle /\ tasks[heap[h].taskId] = 0

\* C39: no watcher sends a status poll for a handle whose task DestroyTask
\* has removed from the registry, and no step writes to such a handle.
C39_DestroyedIsLeftAlone ==
    [][/\ \A w \in Watchers : IssuesPoll(w) => ~Removed(watcher[w].h)
       /\ \A h \in HandleIds :
            (SameProcess /\ Removed(h)) => heap'[h] = heap[h]]_vars

====
